---- MODULE Spec2Model ----
(***************************************************************************)
(* The streaming chat shell of the ai-chat-starter-react-sse sample:       *)
(* ChatViewShell (onSend / onChunk / onStop), its two transports           *)
(* (streamSSE over EventSource, streamHTTP over fetch + ReadableStream)    *)
(* and the browser objects they drive.                                     *)
(*                                                                         *)
(* Text is a sequence of one-character strings, so that concatenation and  *)
(* String.prototype.trim are computed and not assumed.                     *)
(*                                                                         *)
(* One session record is kept per accepted onSend call: it holds what the  *)
(* closure of that call holds (acc, the EventSource or the fetch it        *)
(* opened) plus history fields (frags, ended, stopped) that only record    *)
(* what happened; the handlers never read them (frags is counted by the    *)
(* MaxFrags bound alone).                                                  *)
(*                                                                         *)
(* setState calls are taken as applied when the handler returns, and the   *)
(* rejection of an aborted fetch is handled in the step of the abort: its  *)
(* catch runs as a microtask, before any other handler.                    *)
(***************************************************************************)
EXTENDS Naturals, Sequences, FiniteSets, TLC

VARIABLES
    messages,        \* useState<Msg[]>: sequence of [role, text]
    isStreaming,     \* useState(false)
    esRef,           \* useRef<EventSource|null>: 0 is null, else the session whose EventSource it is
    abortRef,        \* useRef<AbortController|null>: 0 is null, else the session whose controller it is
    hasEventSource,  \* typeof window.EventSource !== 'undefined'
    sessions,        \* one record per accepted onSend call
    errLog,          \* number of console.error('stream error', e) calls
    last,            \* history: the handler that ran in the last step
    scrollTop,       \* ChatPane list element: el.scrollTop
    scrollHeight,    \* ChatPane list element: el.scrollHeight
    atBottom,        \* ChatPane useState(true)
    smooth,          \* the smooth scroll in progress on the list, if any
    jumped,          \* history: scrollToBottom was clicked and the user has not scrolled since
    paneLast,        \* history: the ChatPane step taken last
    srv              \* the mock backend: the request in progress, if any

shell == <<messages, isStreaming, esRef, abortRef, hasEventSource, sessions, errLog, last>>

pane == <<scrollTop, scrollHeight, atBottom, smooth, jumped, paneLast>>

vars == <<shell, pane, srv>>

\* ------------------------------------------------------------------ bounds
MaxSends == 2        \* accepted onSend calls modelled
MaxFrags == 2        \* fragments delivered over all transports
MaxReconnects == 1   \* error events that leave an EventSource reconnecting

\* ------------------------------------------------------------------ inputs
Whitespace == {" "}

Prompts == {<<>>, <<" ">>, <<"h">>}

Fragments == {<<"a">>, <<" ">>}

\* 'Hi! Ask me to write or debug code.'
Greeting ==
    <<"H", "i", "!", " ", "A", "s", "k", " ", "m", "e", " ", "t", "o", " ", "w", "r", "i", "t", "e", " ", "o", "r", " ", "d", "e", "b", "u", "g", " ", "c", "o", "d", "e", ".">>

TransportRef == "sse"

\* ------------------------------------------------------------------ pure helpers
RECURSIVE TrimStart(_)
TrimStart(t) ==
    IF t # <<>> /\ Head(t) \in Whitespace THEN TrimStart(Tail(t)) ELSE t

RECURSIVE TrimEnd(_)
TrimEnd(t) ==
    IF t # <<>> /\ t[Len(t)] \in Whitespace THEN TrimEnd(SubSeq(t, 1, Len(t) - 1)) ELSE t

\* String.prototype.trim
Trim(t) == TrimEnd(TrimStart(t))

\* onChunk with acc = chunk in place of acc += chunk: each fragment replaces
\* the text so far
AccumulateOverwrites(acc, chunk) == chunk

\* acc += chunk
Accumulate(acc, chunk) == acc \o chunk

\* ev.data || ''
EventData(data) == IF data = <<>> THEN <<>> ELSE data

\* next[next.length - 1] = { role:'assistant', text: acc }
ReplaceLast(prev, acc) ==
    [prev EXCEPT ![Len(prev)] = [role |-> "assistant", text |-> acc]]

\* onSend appending the user message without the assistant placeholder
AppendTurnUserOnly(prev, text) == Append(prev, [role |-> "user", text |-> text])

\* [...prev, { role:'user', text }, { role:'assistant', text:'' }]
AppendTurn(prev, text) ==
    prev \o << [role |-> "user", text |-> text], [role |-> "assistant", text |-> <<>>] >>

RECURSIVE Flatten(_)
Flatten(fs) == IF fs = <<>> THEN <<>> ELSE Head(fs) \o Flatten(Tail(fs))

RECURSIVE SumLen(_)
SumLen(ss) == IF ss = <<>> THEN 0 ELSE Len(Head(ss).frags) + SumLen(Tail(ss))

RECURSIVE SumReconnects(_)
SumReconnects(ss) == IF ss = <<>> THEN 0 ELSE Head(ss).reconnects + SumReconnects(Tail(ss))

Sids == 1 .. Len(sessions)

\* the assistant placeholder appended by the s-th accepted onSend
MsgIndex(s) == 1 + 2 * s

\* ------------------------------------------------------------------ transports
\* streamSSE: the EventSource as it is returned to onSend
StreamSSE(prompt) ==
    [ kind |-> "sse", prompt |-> prompt, acc |-> <<>>, frags |-> <<>>,
      readyState |-> "connecting", pc |-> "none", status |-> "none",
      onerror |-> "close", doneListeners |-> <<"close">>,
      terminal |-> "none", reconnects |-> 0, ended |-> "none", stopped |-> FALSE ]

\* onSend, lines 61-67: es.addEventListener('done', doneHandler); es.onerror = () => closer()
AttachCloser(es) ==
    [es EXCEPT !.doneListeners = Append(@, "closer"), !.onerror = "closer"]

\* streamHTTP up to its first await: the fetch is in flight
StreamHTTP(prompt) ==
    [ kind |-> "http", prompt |-> prompt, acc |-> <<>>, frags |-> <<>>,
      readyState |-> "none", pc |-> "fetch", status |-> "none",
      onerror |-> "none", doneListeners |-> <<>>,
      terminal |-> "none", reconnects |-> 0, ended |-> "none", stopped |-> FALSE ]

\* the transport of a session can still call onChunk: an EventSource that is
\* not CLOSED, a fetch or body read that is pending
LiveOf(rec) ==
    \/ rec.kind = "sse" /\ rec.readyState # "closed"
    \/ rec.kind = "http" /\ rec.pc \in {"fetch", "read"}

\* the transport branch of onSend without the typeof window.EventSource test
UseSSEWhateverRuntime == TransportRef = "sse"

Live(s) == LiveOf(sessions[s])

UseSSE == TransportRef = "sse" /\ hasEventSource

\* ------------------------------------------------------------------ ChatPane
\* The message list of ChatPane (ai-chat-starter-react-stream): a scrollable
\* element of fixed height, the atBottom state, the scroll listener, the
\* follow effect and the "Latest" button. Lengths are in CSS pixels.
NearBottomLimit == 120      \* nearBottom: ... < 120

ClientHeight == 400         \* el.clientHeight of the list
MaxScrollHeight == 1000     \* el.scrollHeight modelled up to this

\* by how much one change of the messages prop lengthens the list
Growths == {0, 60, 200}

\* distances from the bottom a user scroll can stop at
Distances == {0, NearBottomLimit - 1, NearBottomLimit, 300}

\* the largest scrollTop of a list of scroll height h
MaxScrollTop(h) == h - ClientHeight

\* el.scrollHeight - el.scrollTop - el.clientHeight
DistanceFromBottom(h, t) == h - t - ClientHeight

\* nearBottom with <= in place of <
NearBottomInclusive(h, t) == DistanceFromBottom(h, t) <= NearBottomLimit

\* nearBottom, line 13
NearBottom(h, t) == DistanceFromBottom(h, t) < NearBottomLimit

NoSmooth == [active |-> FALSE, target |-> 0]

\* el.scrollTo({ top: el.scrollHeight, behavior: 'smooth' }) on a list of
\* scroll height h at scrollTop t: top is clamped to the largest scrollTop,
\* and a scroll to the current position moves nothing and fires no event
SmoothScrollTo(h, t) ==
    IF MaxScrollTop(h) = t THEN NoSmooth ELSE [active |-> TRUE, target |-> MaxScrollTop(h)]

\* the follow effect without its if (atBottom) test
FollowEffectUnguarded(follow, h, t, cur) == SmoothScrollTo(h, t)

\* useEffect(() => { if (atBottom) scrollTo(bottom, smooth) }, [messages, atBottom])
FollowEffect(follow, h, t, cur) == IF follow THEN SmoothScrollTo(h, t) ELSE cur

\* className of the "Latest" button: 'hidden' iff atBottom
FabHidden == atBottom

\* mount: atBottom is true, the list holds the greeting and is at its top,
\* the follow effect finds nothing to scroll
PaneInit ==
    /\ scrollTop = 0
    /\ scrollHeight = ClientHeight
    /\ atBottom = TRUE
    /\ smooth = FollowEffect(TRUE, ClientHeight, 0, NoSmooth)
    /\ jumped = FALSE
    /\ paneLast = "mount"

\* ------------------------------------------------------------------ mock backend
\* The two mock event-stream handlers: app.post('/api/chat') of the
\* ai-chat-starter-react-stream 2 server, driven by setInterval, and
\* app.post('/api/chat/sse') of the sse-e2e server, a for loop that awaits a
\* delay after each write. srv holds what the closure of one request holds
\* (the list, the index i, the timer) and what it has written to res; a line
\* written is <<field, value>>.
MaxTokens == 3                \* longest fragment list of a request

Tokens == {"x", "y"}

TokenLists == UNION { [1 .. n -> Tokens] : n \in 0 .. MaxTokens }

SrvIdle == [kind |-> "none", list |-> <<>>, i |-> 0, out |-> <<>>, timer |-> FALSE, ended |-> FALSE]

\* res.write(`data: ${t}\n\n`)
DataLine(t) == <<"data", t>>

\* res.write("event: end\n"); res.write("data: END\n\n") / ("data: [DONE]\n\n")
EndLines(kind) ==
    << <<"event", "end">>, <<"data", IF kind = "interval" THEN "END" ELSE "[DONE]">> >>

\* POST /api/chat: the handler sets i = 0 and starts the interval
RequestChat(list) ==
    /\ srv.kind = "none" \/ srv.ended
    /\ srv' = [kind |-> "interval", list |-> list, i |-> 0, out |-> <<>>,
               timer |-> TRUE, ended |-> FALSE]
    /\ UNCHANGED <<shell, pane>>

\* the interval callback without clearInterval(interval)
TickKeepsTimer ==
    /\ srv.kind = "interval"
    /\ srv.timer
    /\ IF srv.i >= Len(srv.list)
       THEN srv' = [srv EXCEPT !.out = @ \o EndLines("interval"), !.ended = TRUE]
       ELSE srv' = [srv EXCEPT !.out = Append(@, DataLine(srv.list[srv.i + 1])), !.i = @ + 1]
    /\ UNCHANGED <<shell, pane>>

\* the interval callback: past the list it clears the interval, writes the
\* end event and ends the response; otherwise it writes messages[i] and i++
Tick ==
    /\ srv.kind = "interval"
    /\ srv.timer
    /\ IF srv.i >= Len(srv.list)
       THEN srv' = [srv EXCEPT !.timer = FALSE, !.out = @ \o EndLines("interval"),
                               !.ended = TRUE]
       ELSE srv' = [srv EXCEPT !.out = Append(@, DataLine(srv.list[srv.i + 1])), !.i = @ + 1]
    /\ UNCHANGED <<shell, pane>>

\* POST /api/chat/sse: the handler runs up to its first await: it writes the
\* first token and waits for the delay, or, with no token, writes the end
\* event and ends the response
RequestSse(list) ==
    /\ srv.kind = "none" \/ srv.ended
    /\ srv' = IF list = <<>>
              THEN [kind |-> "loop", list |-> list, i |-> 0, out |-> EndLines("loop"),
                    timer |-> FALSE, ended |-> TRUE]
              ELSE [kind |-> "loop", list |-> list, i |-> 1, out |-> <<DataLine(list[1])>>,
                    timer |-> TRUE, ended |-> FALSE]
    /\ UNCHANGED <<shell, pane>>

\* the delay elapses: the loop writes the next token and waits again, or
\* leaves the loop, writes the end event and ends the response
DelayElapsed ==
    /\ srv.kind = "loop"
    /\ srv.timer
    /\ IF srv.i < Len(srv.list)
       THEN srv' = [srv EXCEPT !.out = Append(@, DataLine(srv.list[srv.i + 1])), !.i = @ + 1]
       ELSE srv' = [srv EXCEPT !.timer = FALSE, !.out = @ \o EndLines("loop"), !.ended = TRUE]
    /\ UNCHANGED <<shell, pane>>

\* ------------------------------------------------------------------ initial state
Init ==
    /\ messages = << [role |-> "assistant", text |-> Greeting] >>
    /\ isStreaming = FALSE
    /\ esRef = 0
    /\ abortRef = 0
    /\ hasEventSource \in BOOLEAN
    /\ sessions = <<>>
    /\ errLog = 0
    /\ last = [op |-> "init", sid |-> 0]
    /\ PaneInit
    /\ srv = SrvIdle

\* ------------------------------------------------------------------ handlers
\* closer without its setStreaming(false)
CloserKeepsFlag ==
    /\ esRef' = 0
    /\ UNCHANGED isStreaming

\* const closer = () => { setStreaming(false); esRef.current = null }
Closer ==
    /\ isStreaming' = FALSE
    /\ esRef' = 0

\* the guard of onSend without the !text.trim() test
SendRejectedBusyOnly(text) == isStreaming

\* if (!text.trim() || isStreaming) return
SendRejected(text) == Trim(text) = <<>> \/ isStreaming

\* onSend(text): the whole call up to its first await (the event-stream branch
\* has none; the chunked-body branch suspends in fetch)
OnSend(text) ==
    IF SendRejected(text)
    THEN /\ last' = [op |-> "sendRejected", sid |-> 0]
         /\ UNCHANGED <<messages, isStreaming, esRef, abortRef, hasEventSource, pane, srv, sessions, errLog>>
    ELSE /\ Len(sessions) < MaxSends
         /\ messages' = AppendTurn(messages, text)
         /\ isStreaming' = TRUE
         /\ IF UseSSE
            THEN /\ sessions' = Append(sessions, AttachCloser(StreamSSE(text)))
                 /\ esRef' = Len(sessions) + 1
                 /\ UNCHANGED abortRef
            ELSE /\ sessions' = Append(sessions, StreamHTTP(text))
                 /\ abortRef' = Len(sessions) + 1
                 /\ UNCHANGED esRef
         /\ last' = [op |-> "send", sid |-> Len(sessions) + 1]
         /\ UNCHANGED <<hasEventSource, pane, srv, errLog>>

\* onChunk of session s: acc += chunk; setMessages(prev => last := {assistant, acc})
OnChunk(s, chunk) ==
    LET acc == Accumulate(sessions[s].acc, chunk) IN
    /\ sessions' = [sessions EXCEPT ![s].acc = acc, ![s].frags = Append(@, chunk)]
    /\ messages' = ReplaceLast(messages, acc)

\* the EventSource of session s connects (or reconnects): readyState OPEN
EsOpen(s) ==
    /\ s \in Sids
    /\ sessions[s].kind = "sse"
    /\ sessions[s].readyState = "connecting"
    /\ sessions' = [sessions EXCEPT ![s].readyState = "open", ![s].terminal = "none"]
    /\ last' = [op |-> "open", sid |-> s]
    /\ UNCHANGED <<messages, isStreaming, esRef, abortRef, hasEventSource, pane, srv, errLog>>

\* an unnamed event: es.onmessage = (ev) => onChunk(ev.data || '')
EsMessage(s, data) ==
    /\ s \in Sids
    /\ sessions[s].kind = "sse"
    /\ sessions[s].readyState = "open"
    /\ sessions[s].terminal = "none"
    /\ SumLen(sessions) < MaxFrags
    /\ OnChunk(s, EventData(data))
    /\ last' = [op |-> "chunk", sid |-> s]
    /\ UNCHANGED <<isStreaming, esRef, abortRef, hasEventSource, pane, srv, errLog>>

\* an event named 'done': the listeners run in the order they were added
EsDone(s) ==
    /\ s \in Sids
    /\ sessions[s].kind = "sse"
    /\ sessions[s].readyState = "open"
    /\ sessions[s].terminal = "none"
    /\ LET ls == sessions[s].doneListeners
           has(n) == \E i \in DOMAIN ls : ls[i] = n
       IN /\ sessions' = [sessions EXCEPT
                 ![s].terminal = "done",
                 ![s].readyState = IF has("close") THEN "closed" ELSE @,
                 ![s].ended = IF has("closer") THEN "done" ELSE @]
          /\ IF has("closer") THEN Closer ELSE UNCHANGED <<isStreaming, esRef>>
    /\ last' = [op |-> "done", sid |-> s]
    /\ UNCHANGED <<messages, abortRef, hasEventSource, pane, srv, errLog>>

\* an event named 'end' (what the mock endpoints write): no listener is
\* registered for it and onmessage receives unnamed events only
EsEnd(s) ==
    /\ s \in Sids
    /\ sessions[s].kind = "sse"
    /\ sessions[s].readyState = "open"
    /\ sessions[s].terminal = "none"
    /\ sessions' = [sessions EXCEPT ![s].terminal = "end"]
    /\ last' = [op |-> "end", sid |-> s]
    /\ UNCHANGED <<messages, isStreaming, esRef, abortRef, hasEventSource, pane, srv, errLog>>

\* an error event of the EventSource of session s. A dropped or refused
\* connection leaves it CONNECTING (the browser reconnects); a failed
\* connection (fatal) leaves it CLOSED. Either way es.onerror runs.
EsError(s, fatal) ==
    /\ s \in Sids
    /\ sessions[s].kind = "sse"
    /\ IF fatal
       THEN sessions[s].readyState = "connecting"
       ELSE sessions[s].readyState # "closed" /\ SumReconnects(sessions) < MaxReconnects
    /\ LET h == sessions[s].onerror IN
       /\ sessions' = [sessions EXCEPT
              ![s].readyState = IF fatal \/ h = "close" THEN "closed" ELSE "connecting",
              ![s].reconnects = IF fatal THEN @ ELSE @ + 1,
              ![s].ended = "error"]
       /\ IF h = "closer" THEN Closer ELSE UNCHANGED <<isStreaming, esRef>>
    /\ last' = [op |-> "error", sid |-> s]
    /\ UNCHANGED <<messages, abortRef, hasEventSource, pane, srv, errLog>>

\* fetch resolves with a response of status class st; streamHTTP goes on to
\* res.body.getReader() whatever the status
FetchResolve(s, st) ==
    /\ s \in Sids
    /\ sessions[s].kind = "http"
    /\ sessions[s].pc = "fetch"
    /\ sessions' = [sessions EXCEPT ![s].pc = "read", ![s].status = st]
    /\ last' = [op |-> "response", sid |-> s]
    /\ UNCHANGED <<messages, isStreaming, esRef, abortRef, hasEventSource, pane, srv, errLog>>

\* reader.read() yields a segment whose decoded text is chunk
HttpChunk(s, chunk) ==
    /\ s \in Sids
    /\ sessions[s].kind = "http"
    /\ sessions[s].pc = "read"
    /\ SumLen(sessions) < MaxFrags
    /\ OnChunk(s, chunk)
    /\ last' = [op |-> "chunk", sid |-> s]
    /\ UNCHANGED <<isStreaming, esRef, abortRef, hasEventSource, pane, srv, errLog>>

\* reader.read() yields done: streamHTTP returns; setStreaming(false); abortRef.current = null
HttpEof(s) ==
    /\ s \in Sids
    /\ sessions[s].kind = "http"
    /\ sessions[s].pc = "read"
    /\ sessions' = [sessions EXCEPT ![s].pc = "returned", ![s].ended = "eof"]
    /\ isStreaming' = FALSE
    /\ abortRef' = 0
    /\ last' = [op |-> "eof", sid |-> s]
    /\ UNCHANGED <<messages, esRef, hasEventSource, pane, srv, errLog>>

\* catch (e) { console.error; setStreaming(false); abortRef.current = null;
\*             if (esRef.current) { esRef.current.close(); esRef.current = null } }
\* run for the rejected streamHTTP of session s, on the sessions ss
Catch(s, ss) ==
    /\ errLog' = errLog + 1
    /\ isStreaming' = FALSE
    /\ abortRef' = 0
    /\ esRef' = 0
    /\ sessions' =
         LET a == [ss EXCEPT ![s].pc = "caught", ![s].ended = "catch"] IN
         IF esRef # 0 THEN [a EXCEPT ![esRef].readyState = "closed"] ELSE a

\* fetch or reader.read() rejects (connection refused, reset mid-stream)
HttpFail(s) ==
    /\ s \in Sids
    /\ sessions[s].kind = "http"
    /\ sessions[s].pc \in {"fetch", "read"}
    /\ Catch(s, sessions)
    /\ last' = [op |-> "fail", sid |-> s]
    /\ UNCHANGED <<messages, hasEventSource, pane, srv>>

\* onStop without esRef.current.close() and without abortRef.current.abort():
\* the handles and the flag are cleared, the transport goes on
OnStopKeepsTransport ==
    /\ IF (TransportRef = "sse" /\ esRef # 0) \/ abortRef # 0
       THEN LET s == IF TransportRef = "sse" /\ esRef # 0 THEN esRef ELSE abortRef IN
            /\ sessions' = [sessions EXCEPT ![s].ended = "stop", ![s].stopped = TRUE]
            /\ esRef' = IF s = esRef THEN 0 ELSE esRef
            /\ abortRef' = IF s = esRef THEN abortRef ELSE 0
            /\ isStreaming' = FALSE
            /\ last' = [op |-> "stop", sid |-> s]
            /\ UNCHANGED errLog
       ELSE /\ last' = [op |-> "stop", sid |-> 0]
            /\ UNCHANGED <<sessions, esRef, isStreaming, abortRef, errLog>>
    /\ UNCHANGED <<messages, hasEventSource, pane, srv>>

\* onStop without its guards on esRef.current and abortRef.current: it cancels
\* the transport of the latest onSend call whatever the handles hold
OnStopUnguarded ==
    /\ IF sessions # <<>>
       THEN LET s == Len(sessions) IN
            /\ sessions' = [sessions EXCEPT
                   ![s].readyState = IF @ = "none" THEN @ ELSE "closed",
                   ![s].pc = IF @ = "none" THEN @ ELSE "caught",
                   ![s].ended = "stop",
                   ![s].stopped = TRUE]
            /\ esRef' = 0
            /\ abortRef' = 0
            /\ isStreaming' = FALSE
            /\ last' = [op |-> "stop", sid |-> s]
       ELSE /\ last' = [op |-> "stop", sid |-> 0]
            /\ UNCHANGED <<sessions, esRef, isStreaming, abortRef>>
    /\ UNCHANGED <<messages, hasEventSource, pane, srv, errLog>>

\* onStop. abort() rejects the pending fetch or read at once, and the catch of
\* the suspended onSend runs before any other handler.
OnStop ==
    /\ IF TransportRef = "sse" /\ esRef # 0
       THEN /\ sessions' = [sessions EXCEPT ![esRef].readyState = "closed",
                                            ![esRef].ended = "stop",
                                            ![esRef].stopped = TRUE]
            /\ esRef' = 0
            /\ isStreaming' = FALSE
            /\ last' = [op |-> "stop", sid |-> esRef]
            /\ UNCHANGED <<abortRef, errLog>>
       ELSE IF abortRef # 0
            THEN /\ Catch(abortRef, [sessions EXCEPT ![abortRef].stopped = TRUE])
                 /\ last' = [op |-> "stop", sid |-> abortRef]
            ELSE /\ last' = [op |-> "stop", sid |-> 0]
                 /\ UNCHANGED <<sessions, esRef, isStreaming, abortRef, errLog>>
    /\ UNCHANGED <<messages, hasEventSource, pane, srv>>

\* ------------------------------------------------------------------ specification
Next ==
    \/ \E text \in Prompts : OnSend(text)
    \/ OnStop
    \/ \E s \in Sids : EsOpen(s)
    \/ \E s \in Sids, f \in Fragments : EsMessage(s, f)
    \/ \E s \in Sids : EsDone(s)
    \/ \E s \in Sids : EsEnd(s)
    \/ \E s \in Sids, fatal \in BOOLEAN : EsError(s, fatal)
    \/ \E s \in Sids, st \in {"ok", "bad"} : FetchResolve(s, st)
    \/ \E s \in Sids, f \in Fragments : HttpChunk(s, f)
    \/ \E s \in Sids : HttpEof(s)
    \/ \E s \in Sids : HttpFail(s)

Spec == Init /\ [][Next]_vars

\* ------------------------------------------------------------------ fairness
\* the events that end a turn: the transport delivers its completion marker
\* or an error, or the user stops
Terminate ==
    \/ OnStop
    \/ \E s \in Sids : EsDone(s)
    \/ \E s \in Sids, fatal \in BOOLEAN : EsError(s, fatal)
    \/ \E s \in Sids : HttpEof(s)
    \/ \E s \in Sids : HttpFail(s)

\* the shell in an environment where one of these events eventually happens
\* while one of them can happen
SpecLive == Spec /\ WF_vars(Terminate)

\* ------------------------------------------------------------------ ChatPane steps
\* the scroll listener, run with the list at scrollTop t, and the follow
\* effect that React runs afterwards when atBottom has changed; cur is the
\* smooth scroll still in progress
OnScroll(t, cur) ==
    LET nearBottom == NearBottom(scrollHeight, t) IN
    /\ atBottom' = nearBottom
    /\ smooth' = IF nearBottom # atBottom
                 THEN FollowEffect(nearBottom, scrollHeight, t, cur)
                 ELSE cur

\* the user (or a script setting el.scrollTop) scrolls the list to distance d
\* from its bottom; this ends a smooth scroll in progress
UserScroll(d) ==
    /\ MaxScrollTop(scrollHeight) >= d
    /\ LET t == MaxScrollTop(scrollHeight) - d IN
       /\ t # scrollTop
       /\ scrollTop' = t
       /\ OnScroll(t, NoSmooth)
    /\ jumped' = FALSE
    /\ paneLast' = "scroll"
    /\ UNCHANGED <<scrollHeight, shell, srv>>

\* one frame of the smooth scroll in progress: the list moves to p, half way
\* to the target or onto it, and a scroll event is fired
SmoothStep(p) ==
    /\ smooth.active
    /\ p \in {scrollTop + (smooth.target - scrollTop) \div 2, smooth.target}
    /\ p # scrollTop
    /\ scrollTop' = p
    /\ OnScroll(p, IF p = smooth.target THEN NoSmooth ELSE smooth)
    /\ paneLast' = "frame"
    /\ UNCHANGED <<scrollHeight, jumped, shell, srv>>

\* the messages prop changes and the list grows by d: the list keeps its
\* scrollTop, no scroll event is fired, the follow effect runs
MessagesChange(d) ==
    /\ scrollHeight + d <= MaxScrollHeight
    /\ scrollHeight' = scrollHeight + d
    /\ smooth' = FollowEffect(atBottom, scrollHeight', scrollTop, smooth)
    /\ paneLast' = "messages"
    /\ UNCHANGED <<scrollTop, atBottom, jumped, shell, srv>>

\* a click on the "Latest" button, which can be clicked when it is not hidden
ScrollToBottom ==
    /\ ~FabHidden
    /\ smooth' = SmoothScrollTo(scrollHeight, scrollTop)
    /\ jumped' = TRUE
    /\ paneLast' = "jump"
    /\ UNCHANGED <<scrollTop, scrollHeight, atBottom, shell, srv>>

NextPane ==
    \/ \E d \in Distances : UserScroll(d)
    \/ \E p \in 0 .. MaxScrollHeight : SmoothStep(p)
    \/ \E d \in Growths : MessagesChange(d)
    \/ ScrollToBottom

\* ChatPane alone: the shell stays as mounted
InitPane == Init /\ hasEventSource = TRUE

SpecPane == InitPane /\ [][NextPane]_vars

\* ------------------------------------------------------------------ message actions
\* a click on Regenerate with a handler that empties the message and raises
\* the active flag
RegenerateClears(i) ==
    /\ i \in DOMAIN messages
    /\ messages[i].role = "assistant"
    /\ messages' = [messages EXCEPT ![i].text = <<>>]
    /\ isStreaming' = TRUE
    /\ last' = [op |-> "regen", sid |-> (i - 1) \div 2]
    /\ UNCHANGED <<esRef, abortRef, hasEventSource, pane, srv, sessions, errLog>>

\* a click on the Regenerate button of assistant message i (the message of
\* session (i - 1) \div 2; message 1 is the greeting): MessageBubble renders
\* the button on every assistant message and gives it no onClick
Regenerate(i) ==
    /\ i \in DOMAIN messages
    /\ messages[i].role = "assistant"
    /\ last' = [op |-> "regen", sid |-> (i - 1) \div 2]
    /\ UNCHANGED <<messages, isStreaming, esRef, abortRef, hasEventSource, pane, srv, sessions, errLog>>

NextActions ==
    \/ Next
    \/ \E i \in 1 .. (1 + 2 * MaxSends) : Regenerate(i)

\* the shell with the message actions of its bubbles
SpecActions == Init /\ [][NextActions]_vars

\* ------------------------------------------------------------------ the older shell
\* ChatViewShell of ai-chat-starter-react-stream 2: messages is its only
\* state; onSend tests the prompt only, streamPrompt is streamHTTP without an
\* AbortController, and there is neither a stop handler nor a try/catch.
OnSendStreamShell(text) ==
    IF Trim(text) = <<>>
    THEN /\ last' = [op |-> "sendRejected", sid |-> 0]
         /\ UNCHANGED <<messages, isStreaming, esRef, abortRef, hasEventSource, pane, srv, sessions, errLog>>
    ELSE /\ Len(sessions) < MaxSends
         /\ messages' = AppendTurn(messages, text)
         /\ sessions' = Append(sessions, StreamHTTP(text))
         /\ last' = [op |-> "send", sid |-> Len(sessions) + 1]
         /\ UNCHANGED <<isStreaming, esRef, abortRef, hasEventSource, pane, srv, errLog>>

\* reader.read() yields done: streamPrompt returns and onSend ends
StreamPromptEof(s) ==
    /\ s \in Sids
    /\ sessions[s].pc = "read"
    /\ sessions' = [sessions EXCEPT ![s].pc = "returned", ![s].ended = "eof"]
    /\ last' = [op |-> "eof", sid |-> s]
    /\ UNCHANGED <<messages, isStreaming, esRef, abortRef, hasEventSource, pane, srv, errLog>>

\* fetch or reader.read() rejects: the promise of onSend rejects unhandled
StreamPromptFail(s) ==
    /\ s \in Sids
    /\ sessions[s].pc \in {"fetch", "read"}
    /\ sessions' = [sessions EXCEPT ![s].pc = "rejected", ![s].ended = "error"]
    /\ last' = [op |-> "fail", sid |-> s]
    /\ UNCHANGED <<messages, isStreaming, esRef, abortRef, hasEventSource, pane, srv, errLog>>

InitStreamShell == Init /\ hasEventSource = FALSE

NextStreamShell ==
    \/ \E text \in Prompts : OnSendStreamShell(text)
    \/ \E s \in Sids, st \in {"ok", "bad"} : FetchResolve(s, st)
    \/ \E s \in Sids, f \in Fragments : HttpChunk(s, f)
    \/ \E s \in Sids : StreamPromptEof(s)
    \/ \E s \in Sids : StreamPromptFail(s)

SpecStreamShell == InitStreamShell /\ [][NextStreamShell]_vars

\* ------------------------------------------------------------------ mock backend specification
InitMock == Init /\ hasEventSource = TRUE

NextMock ==
    \/ \E list \in TokenLists : RequestChat(list)
    \/ Tick
    \/ \E list \in TokenLists : RequestSse(list)
    \/ DelayElapsed

\* timers of the Node event loop fire
SpecMock == InitMock /\ [][NextMock]_vars /\ WF_vars(Tick) /\ WF_vars(DelayElapsed)

\* ------------------------------------------------------------------ lifecycle
\* The shell keeps no state field on a message. The lifecycle state of the
\* message of a session is read off the handler that ended the session last
\* (ended) and off whether a fragment has been applied (frags).
LifecycleOf(rec) ==
    CASE rec.ended = "none" -> (IF rec.frags = <<>> THEN "requesting" ELSE "streaming")
      [] rec.ended \in {"done", "eof"} -> "completed"
      [] rec.ended = "stop" -> "stopped"
      [] rec.ended \in {"error", "catch"} -> "error"

Lifecycle(s) == LifecycleOf(sessions[s])

ActiveStates == {"requesting", "streaming"}

ListedTransitions ==
    { <<"requesting", "streaming">>, <<"requesting", "error">>, <<"streaming", "error">>,
      <<"streaming", "completed">>, <<"streaming", "stopped">>,
      <<"completed", "requesting">>, <<"stopped", "requesting">>, <<"error", "requesting">> }

\* the step just taken is a callback of session s (fragment, completion, error)
CallbackOf(s) ==
    /\ last' # last
    /\ last'.sid = s
    /\ last'.op \in {"chunk", "done", "eof", "error", "fail"}

\* ------------------------------------------------------------------ claims
\* C1: in every reachable state at most one transport can still deliver
\* fragments into the conversation.
C1_AtMostOneLive == Cardinality({s \in Sids : Live(s)}) <= 1

\* C2: a send made while a session is live is rejected and changes neither the
\* messages, the streaming flag, the handles nor the set of transports.
C2_BusySendRejected ==
    [][ ( /\ \E s \in Sids : Live(s)
          /\ last' # last
          /\ last'.op \in {"send", "sendRejected"} )
        => ( /\ last'.op = "sendRejected"
             /\ UNCHANGED <<messages, isStreaming, esRef, abortRef, sessions>> ) ]_vars

\* C3: once a session has received its completion marker, the text of its
\* assistant message is the concatenation, in arrival order, of the fragments
\* its transport delivered.
C3_FinalTextIsConcatenation ==
    \A s \in Sids :
        sessions[s].ended \in {"done", "eof"}
            => messages[MsgIndex(s)].text = Flatten(sessions[s].frags)

C5_LateCallbackChangesNothing ==
    [][ \A s \in Sids :
          (sessions[s].ended # "none" /\ CallbackOf(s))
             => UNCHANGED <<messages, isStreaming, esRef, abortRef>> ]_vars

\* C6: the lifecycle state of a message changes only along the listed
\* transitions.
C6_OnlyListedTransitions ==
    [][ \A s \in Sids :
          LifecycleOf(sessions'[s]) # Lifecycle(s)
             => <<Lifecycle(s), LifecycleOf(sessions'[s])>> \in ListedTransitions ]_vars

\* C7: a message has an open transport exactly when it is requesting or
\* streaming, and then a handle that stop can use refers to it.
C7_SessionIffActiveState ==
    \A s \in Sids :
        /\ Live(s) <=> Lifecycle(s) \in ActiveStates
        /\ Lifecycle(s) \in ActiveStates => (esRef = s \/ abortRef = s)

C9_ErrorRecordedAndSessionDestroyed ==
    [][ \A s \in Sids :
          ( /\ Lifecycle(s) \in ActiveStates
            /\ last' # last /\ last'.sid = s /\ last'.op \in {"error", "fail"} )
          => ( /\ LifecycleOf(sessions'[s]) = "error"
               /\ "error" \in DOMAIN messages'[MsgIndex(s)]
               /\ ~LiveOf(sessions'[s]) ) ]_vars

\* C10: after a transport error has ended a session its connection is closed
\* and stays closed, and it applies no further fragment.
C10_NoAutomaticRetry ==
    \A s \in Sids :
        sessions[s].ended \in {"error", "catch"} => ~Live(s)

\* C11: a chunked-body response with a non-success status is an error: no
\* part of its body is applied as a fragment and its message is not completed.
C11_NonSuccessStatusIsError ==
    \A s \in Sids :
        sessions[s].status = "bad"
            => (sessions[s].frags = <<>> /\ Lifecycle(s) # "completed")

\* C12: a terminal event of an event stream, named done or end, completes the
\* message and closes the connection without changing any text, and no
\* fragment of that connection is applied after it.
C12_TerminalEventEndsSession ==
    [][ /\ ( (last' # last /\ last'.op \in {"done", "end"})
             => ( /\ LifecycleOf(sessions'[last'.sid]) = "completed"
                  /\ ~LiveOf(sessions'[last'.sid])
                  /\ messages' = messages ) )
        /\ \A s \in Sids :
             sessions[s].terminal # "none" => sessions'[s].frags = sessions[s].frags ]_vars

C13_WitnessHTTP ==
    /\ \E s \in Sids :
         /\ sessions[s].kind = "http"
         /\ sessions[s].ended = "eof"
         /\ Len(sessions[s].frags) = 2
         /\ sessions[s].frags[1] # sessions[s].frags[2]
         /\ messages[MsgIndex(s)].text = Flatten(sessions[s].frags)

\* C14: a stop made when there is no active session (the active flag is
\* clear, or no transport is open) changes nothing, and a stop made right
\* after a stop changes nothing: two stops leave the state one stop leaves.
C14_StopNoOpAndIdempotent ==
    [][ ( /\ last'.op = "stop"
          /\ \/ ~isStreaming
             \/ \A s \in Sids : ~Live(s)
             \/ last.op = "stop" )
        => UNCHANGED <<messages, isStreaming, esRef, abortRef, sessions, errLog>> ]_vars

\* C14 witness: a stop found no handle to cancel, after an earlier stop had
\* cancelled a session.
C14_Witness ==
    /\ last = [op |-> "stop", sid |-> 0]
    /\ \E s \in Sids : sessions[s].stopped
    /\ ~isStreaming /\ esRef = 0 /\ abortRef = 0

\* C15: the transport of a session is chosen once, when the session starts:
\* the event stream when the runtime has EventSource, the chunked body
\* otherwise, and it is never changed afterwards. A stop that cancels
\* something cancels the transport of the session of the current turn, which
\* is open, by the means of its kind: the event source is closed, the request
\* is aborted.
C15_TransportChosenOnceAndCancelled ==
    [][ /\ \A s \in Sids :
             /\ sessions[s].kind = (IF hasEventSource THEN "sse" ELSE "http")
             /\ sessions'[s].kind = sessions[s].kind
        /\ hasEventSource' = hasEventSource
        /\ ( (last' # last /\ last'.op = "stop" /\ last'.sid # 0)
             => LET s == last'.sid IN
                /\ s = Len(sessions)
                /\ Live(s)
                /\ ~LiveOf(sessions'[s])
                /\ sessions[s].kind = "sse"
                     => (esRef = s /\ sessions'[s].readyState = "closed")
                /\ sessions[s].kind = "http"
                     => (abortRef = s /\ sessions'[s].pc = "caught")
                /\ \A t \in Sids \ {s} : LiveOf(sessions'[t]) = Live(t) ) ]_vars

\* C15 witness: a stop has just closed the event source of a session that
\* had applied a fragment.
C15_Witness ==
    /\ last.op = "stop"
    /\ last.sid # 0
    /\ sessions[last.sid].kind = "sse"
    /\ sessions[last.sid].readyState = "closed"
    /\ sessions[last.sid].frags # <<>>
    /\ hasEventSource

\* C16: after every scroll event and after every change of the content
\* length, atBottom (and with it the hidden state of the "Latest" button)
\* equals scrollHeight - scrollTop - clientHeight < 120: following at 119,
\* not following at 120.
C16_FollowingIsDistanceBelowLimit ==
    paneLast \in {"scroll", "frame", "messages"}
        => ( /\ atBottom = (scrollHeight - scrollTop - ClientHeight < NearBottomLimit)
             /\ FabHidden = (scrollHeight - scrollTop - ClientHeight < NearBottomLimit) )

\* C17: a content update made while atBottom is true starts a scroll to the
\* new bottom (or finds the list there already) and leaves the button hidden;
\* a content update made while atBottom is false neither moves the list nor
\* starts or redirects a scroll, and the button stays shown.
C17_FollowOnlyWhileAtBottom ==
    [][ paneLast' = "messages"
          => /\ atBottom
                  => ( /\ \/ scrollTop' = MaxScrollTop(scrollHeight')
                          \/ smooth'.active /\ smooth'.target = MaxScrollTop(scrollHeight')
                       /\ FabHidden' )
             /\ ~atBottom
                  => ( /\ scrollTop' = scrollTop
                       /\ smooth' = smooth
                       /\ ~FabHidden' ) ]_vars

\* C17 witness: the list grew while following and a scroll to the new bottom
\* is under way.
C17_Witness ==
    /\ paneLast = "messages"
    /\ atBottom
    /\ scrollTop < MaxScrollTop(scrollHeight)
    /\ smooth = [active |-> TRUE, target |-> MaxScrollTop(scrollHeight)]

\* the other half of the C17 witness: the list grew while not following
C17_WitnessNotFollowing ==
    /\ paneLast = "messages"
    /\ ~atBottom
    /\ ~smooth.active
    /\ DistanceFromBottom(scrollHeight, scrollTop) > NearBottomLimit

\* C18: once the scroll started by a click on "Latest" has come to rest (and
\* the user has not scrolled since), the list is at its bottom, atBottom is
\* true and the button is hidden.
C18_JumpEndsFollowing ==
    (jumped /\ ~smooth.active)
        => ( /\ scrollTop = MaxScrollTop(scrollHeight)
             /\ atBottom
             /\ FabHidden )

TerminalStates == {"completed", "stopped", "error"}

C20_StopThenRegenerate ==
    [][ /\ ( ( /\ last' # last /\ last'.op = "stop" /\ last'.sid \in Sids
               /\ Len(sessions[last'.sid].frags) = 1 )
             => ( /\ sessions'[last'.sid].stopped
                  /\ ~LiveOf(sessions'[last'.sid])
                  /\ ~isStreaming'
                  /\ messages'[MsgIndex(last'.sid)].text = sessions[last'.sid].frags[1] ) )
        /\ ( ( /\ last' # last /\ last'.op = "regen" /\ last'.sid \in Sids
               /\ sessions[last'.sid].stopped
               /\ Len(sessions[last'.sid].frags) = 1
               /\ ~isStreaming )
             => ( /\ Len(sessions') = Len(sessions) + 1
                  /\ LifecycleOf(sessions'[Len(sessions')]) = "requesting"
                  /\ LiveOf(sessions'[Len(sessions')])
                  /\ ~LiveOf(sessions'[last'.sid])
                  /\ isStreaming' ) ) ]_vars

\* ------------------------------------------------------------------ Composer
\* Composer renders the Stop button when its streaming prop is true and the
\* Send button otherwise; ChatViewShell passes streaming={isStreaming}
StopOffered == isStreaming

SendOffered == ~isStreaming

\* C21: in every reachable state exactly one of Stop and Send is offered,
\* Stop is offered exactly while some transport is open, and Stop is not
\* offered right after a stop or a completion.
C21_StopOfferedIffStreamActive ==
    /\ StopOffered # SendOffered
    /\ StopOffered <=> (\E s \in Sids : Live(s))
    /\ last.op \in {"stop", "done", "eof"} => ~StopOffered

\* C22: an accepted send appends exactly two messages at the end of the
\* conversation, the user message with the prompt as given and an assistant
\* message with empty text whose session is requesting, and leaves every
\* earlier message as it was; no step removes a message or changes the role
\* of one.
C22_SendAppendsUserAndPlaceholder ==
    [][ /\ ( (last' # last /\ last'.op = "send")
             => \E text \in Prompts :
                  /\ Trim(text) # <<>>
                  /\ messages' = messages \o << [role |-> "user", text |-> text],
                                               [role |-> "assistant", text |-> <<>>] >>
                  /\ sessions'[last'.sid].prompt = text
                  /\ LifecycleOf(sessions'[last'.sid]) = "requesting" )
        /\ Len(messages') >= Len(messages)
        /\ \A i \in DOMAIN messages : messages'[i].role = messages[i].role ]_vars

\* C22 witness: the second accepted send of a conversation has just appended
\* its two messages after the three that were there.
C22_Witness ==
    /\ last = [op |-> "send", sid |-> 2]
    /\ Len(messages) = 5
    /\ messages[4].role = "user"
    /\ messages[5] = [role |-> "assistant", text |-> <<>>]

\* C25: a fragment changes the assistant message appended by the send that
\* opened the delivering session and no other message.
C25_FragmentGoesToOwnMessage ==
    [][ (last'.op = "chunk" /\ sessions' # sessions)
          => \A i \in DOMAIN messages :
               i # MsgIndex(last'.sid) => messages'[i] = messages[i] ]_vars

\* C23: atBottom changes from true to false only in a scroll event caused by
\* the user, never in a change of the content and never in a scroll event of
\* a scroll the component started itself.
C23_OnlyUserScrollPausesFollow ==
    [][ (atBottom /\ ~atBottom') => paneLast' = "scroll" ]_vars

C26_StopIsNotAnError ==
    [][ (last' # last /\ last'.op = "stop" /\ last'.sid \in Sids)
          => ( /\ errLog' = errLog
               /\ LifecycleOf(sessions'[last'.sid]) = "stopped" ) ]_vars

IsPrefix(a, b) == Len(a) <= Len(b) /\ a = SubSeq(b, 1, Len(a))

\* C28: while a session has not ended, the text of its assistant message is
\* a prefix of the concatenation of the fragments it has delivered so far,
\* and no step shortens that text or changes a character of it.
C28_TextIsGrowingPrefix ==
    [][ \A s \in Sids :
          sessions[s].ended = "none"
            => ( /\ IsPrefix(messages[MsgIndex(s)].text, Flatten(sessions[s].frags))
                 /\ IsPrefix(messages[MsgIndex(s)].text, messages'[MsgIndex(s)].text) ) ]_vars

\* C29: a send whose prompt is empty or holds whitespace only changes
\* nothing, whatever the state: no message is appended, no transport is
\* opened, and the active flag, the handles and every session stay as they
\* were.
C29_BlankSendIsNoOp ==
    [][ \A text \in Prompts :
          (Trim(text) = <<>> /\ OnSend(text))
             => UNCHANGED <<messages, isStreaming, esRef, abortRef, sessions, errLog>> ]_vars

\* C29 witness: a send has just been rejected although the shell was idle
\* (so its prompt was blank), with one turn already in the conversation.
C29_Witness ==
    /\ last.op = "sendRejected"
    /\ ~isStreaming
    /\ Len(sessions) = 1
    /\ Len(messages) = 3

\* C27: whenever the active flag is set, a transport is open and stop holds
\* a handle, so the flag is never left set after the transport has ended; and
\* if a completion, an error or a stop eventually happens, the flag is
\* eventually cleared and a send with a non-blank prompt is accepted again.
C27_ActiveFlagEventuallyCleared ==
    /\ [](isStreaming => ( /\ \E s \in Sids : Live(s)
                           /\ esRef # 0 \/ abortRef # 0 ))
    /\ isStreaming ~> ( /\ ~isStreaming
                        /\ \A t \in Prompts : Trim(t) # <<>> => ~SendRejected(t) )

\* C27 witness: an error of the transport has just cleared the active flag of
\* a session that had applied a fragment.
C27_Witness ==
    /\ last.op \in {"error", "fail"}
    /\ last.sid \in Sids
    /\ sessions[last.sid].frags # <<>>
    /\ ~isStreaming

RECURSIVE DataLines(_)
DataLines(list) == IF list = <<>> THEN <<>> ELSE <<DataLine(Head(list))>> \o DataLines(Tail(list))

\* C30: what a mock event-stream handler has written is at every moment a
\* prefix of: one data line per fragment, in list order, then one end event
\* with its sentinel payload; once the response has ended all of it has been
\* written and the timer is stopped; and every request ends its response.
C30_MockWritesListThenOneEnd ==
    /\ [](srv.kind # "none"
            => ( /\ IsPrefix(srv.out, DataLines(srv.list) \o EndLines(srv.kind))
                 /\ srv.ended => ( /\ srv.out = DataLines(srv.list) \o EndLines(srv.kind)
                                   /\ ~srv.timer ) ))
    /\ (srv.kind # "none" /\ ~srv.ended) ~> srv.ended

\* C30 witness: the interval handler has ended a response after a list of
\* three fragments that are not all equal.
C30_Witness ==
    /\ srv.kind = "interval"
    /\ srv.ended
    /\ Len(srv.list) = MaxTokens
    /\ srv.list[1] # srv.list[2]
    /\ Len(srv.out) = MaxTokens + 2

====
